---------------------------- MODULE Spec2Model ----------------------------
(***************************************************************************)
(* Affiliate payout pipeline of yearn/affiliates.py.                        *)
(*                                                                         *)
(* Numbers.  The program computes in float64.  The model keeps every       *)
(* column exact as an integer in a fixed unit:                             *)
(*   rates (TIERS values, tier)   in 1/RateScale   (0.10 is 10)            *)
(*   share                        in 1/RateScale   (0.5 is 50)             *)
(*   payout_base                  in 1/RateScale^2                         *)
(*   payout, amount               in 1/RateScale^3                         *)
(*   usd = payout * vault_price   in 1/RateScale^3                         *)
(* A float that may be NaN is a record [nan, v]; NaN is [nan |-> TRUE].    *)
(***************************************************************************)
EXTENDS Integers, Sequences, FiniteSets, TLC

VARIABLES
    \* --- get_tier harness
    amount,          \* argument handed to get_tier
    rate,            \* value get_tier returned for it, NotYet before the call
    \* --- get_protocol_fees harness
    logs,            \* decoded Transfer logs of one vault, in log order
    fees,            \* the dict get_protocol_fees returned, NotYet before the call
    \* --- joblib worker pool of get_timestamps / Wrapper.vault_prices
    pool,            \* state of the running Parallel call
    \* --- process_affiliates
    chain,           \* the on-chain data the collaborators answer from
    pc,              \* position of process_affiliates
    result,          \* `result`: ledger of the partner processed last
    total_balances,  \* local of Partner.process (per observed block)
    tiers,           \* local of Partner.process (per observed block)
    payout,          \* `payout`: export rows of the partner processed last
    usd,             \* `usd` of the partner processed last
    payouts,         \* `payouts`: list of the export tables so far
    total,           \* `total`
    ledger           \* rows written to research/affiliates/payouts.csv

vars == <<amount, rate, logs, fees, pool, chain, pc, result, total_balances,
          tiers, payout, usd, payouts, total, ledger>>

\* A value not returned yet is <<>>, a returned value x is <<x>>.
Some(x) == <<x>>
NotYet == <<>>

\* ---------------------------------------------------------------- bounds
MaxBlock == 2        \* block heights are 1..MaxBlock
MaxLogs == 3         \* longest log list handed to get_protocol_fees
MaxTasks == 3        \* longest block list handed to one Parallel call
MaxWorkers == 2      \* worker threads of the pool (the program asks for 50)

\* Unit of the rates: 0.10 is 10, 0.65 is 65.
RateScale == 100

\* vault.scale (10 ** decimals); the on-chain integers of the model are
\* multiples of it, so that x / vault.scale is exact.
VaultScale == 10

\* Length of a calendar month in the time unit of the block timestamps.
MonthLen == 2

\* ---------------------------------------------------------------- helpers
RECURSIVE SumSeq(_)
SumSeq(s) == IF s = <<>> THEN 0 ELSE Head(s) + SumSeq(Tail(s))

\* Python's sorted() over a collection of distinct integers: the element
\* with i - 1 smaller ones comes i-th.
sorted(S) ==
    [i \in 1 .. Cardinality(S) |->
        CHOOSE x \in S : Cardinality({y \in S : y < x}) = i - 1]

\* Python's seq[i] for a 0-based index; a negative index counts from the end.
PyIndex(seq, i) == IF i < 0 THEN seq[Len(seq) + i + 1] ELSE seq[i + 1]

\* ---------------------------------------------------------------- TIERS
TIERS == (0 :> 0) @@ (1000000 :> 10) @@ (5000000 :> 15) @@ (10000000 :> 20)
         @@ (50000000 :> 25) @@ (100000000 :> 30) @@ (200000000 :> 35)
         @@ (400000000 :> 40) @@ (700000000 :> 45) @@ (1000000000 :> 50)

\* bisect.bisect_left: the wrong variant of bisect_right (x <= a[mid] goes left).
RECURSIVE bisect_left_from(_, _, _, _)
bisect_left_from(a, x, lo, hi) ==
    IF lo < hi
    THEN LET mid == (lo + hi) \div 2
         IN IF a[mid + 1] < x THEN bisect_left_from(a, x, mid + 1, hi)
                              ELSE bisect_left_from(a, x, lo, mid)
    ELSE lo

bisect_left(a, x) == bisect_left_from(a, x, 0, Len(a))

\* bisect.bisect_right(a, x): binary search, lo = 0, hi = len(a).
RECURSIVE bisect_right_from(_, _, _, _)
bisect_right_from(a, x, lo, hi) ==
    IF lo < hi
    THEN LET mid == (lo + hi) \div 2
         IN IF x < a[mid + 1] THEN bisect_right_from(a, x, lo, mid)
                              ELSE bisect_right_from(a, x, mid + 1, hi)
    ELSE lo

bisect_right(a, x) == bisect_right_from(a, x, 0, Len(a))

get_tier(amt) ==
    LET keys == sorted(DOMAIN TIERS)
        index == bisect_right(keys, amt) - 1
    IN TIERS[PyIndex(keys, index)]

\* ------------------------------------------------------- get_tier harness
Thresholds == DOMAIN TIERS

\* Amounts around every threshold, between thresholds and past the last one.
Amounts ==
    {a \in UNION {{t - 2, t - 1, t, t + 1, t + 2, t + t \div 2, 2 * t} :
                    t \in Thresholds} : a >= 0}

InitTier ==
    /\ amount \in Amounts
    /\ rate = NotYet

\* total_balances.apply(get_tier): one call of get_tier.
ApplyGetTier ==
    /\ rate = NotYet
    /\ rate' = Some(get_tier(amount))
    /\ UNCHANGED amount

\* ------------------------------------------------------ get_protocol_fees
Blocks == 1 .. MaxBlock

\* d[k] = v on a dict kept as the list of its items in insertion order:
\* a key already present keeps its place and takes the new value.
DictSetFirstWins(d, k, v) ==
    IF \E i \in DOMAIN d : d[i].key = k
    THEN d
    ELSE Append(d, [key |-> k, value |-> v])

DictSet(d, k, v) ==
    IF \E i \in DOMAIN d : d[i].key = k
    THEN [i \in DOMAIN d |-> IF d[i].key = k THEN [key |-> k, value |-> v]
                                              ELSE d[i]]
    ELSE Append(d, [key |-> k, value |-> v])

\* {log.block_number: log['value'] / vault.scale for log in logs}
RECURSIVE DictOfLogs(_, _)
DictOfLogs(d, lg) ==
    IF lg = <<>>
    THEN d
    ELSE DictOfLogs(DictSet(d, Head(lg).block_number,
                            Head(lg).value \div VaultScale), Tail(lg))

get_protocol_fees(lg) == DictOfLogs(<<>>, lg)

\* The raw Transfer values of the harness, multiples of vault.scale.
LogValues == {VaultScale, 2 * VaultScale, 3 * VaultScale}

\* Log lists as get_logs_asap delivers them: ordered by block, several
\* transfers of one block allowed.
LogLists ==
    {lg \in UNION {[1 .. n -> [block_number : Blocks, value : LogValues]] :
                     n \in 0 .. MaxLogs} :
        \A i \in DOMAIN lg : \A j \in DOMAIN lg :
            i < j => lg[i].block_number <= lg[j].block_number}

InitFees ==
    /\ logs \in LogLists
    /\ fees = NotYet

GetProtocolFees ==
    /\ fees = NotYet
    /\ fees' = Some(get_protocol_fees(logs))
    /\ UNCHANGED logs

\* ------------------------------------------------------------- floats
NaN == [nan |-> TRUE, v |-> 0]
Num(n) == [nan |-> FALSE, v |-> n]

\* n / d on float64 columns, the quotient kept in 1/unit: 0 / 0 is NaN and
\* nothing is raised.  x / 0 with x > 0 (inf) needs balanceOf > totalSupply,
\* which no share token allows, and is left undefined.
DivZeroIsZero(n, d, unit) == IF d = 0 THEN Num(0) ELSE Num((n * unit) \div d)

Div(n, d, unit) ==
    CASE d # 0 -> Num((n * unit) \div d)
      [] d = 0 /\ n = 0 -> NaN

\* a * n for a float a and a number n: NaN * n is NaN, also for n = 0.
Mul(a, n) == IF a.nan THEN NaN ELSE Num(a.v * n)

\* a + b on floats.
Add(a, b) == IF a.nan \/ b.nan THEN NaN ELSE Num(a.v + b.v)

\* pandas sums skip NaN (skipna=True, min_count=0): a NaN adds nothing.
SkipNa(a) == IF a.nan THEN 0 ELSE a.v

\* ------------------------------------------------------------- affiliates
DAI == "0x19D3364A399d251E894aC732651be8B0E4e85001"
USDC == "0x5f18C75AbDAe578b483E5F43f12a39cF75b973a9"
Vaults == {DAI, USDC}

\* The vault addresses in the order sort_index puts the pivot columns in.
VaultColumns == <<DAI, USDC>>

\* Two consecutive partners of the configured list: one with two wrappers on
\* one vault and a third on another, one with a single wrapper.
affiliates ==
    << [name |-> "inverse",
        treasury |-> "0x926dF14a23BE491164dCF93f4c468A50ef659D5B",
        wrappers |->
          << [name |-> "dai-wbtc", vault |-> DAI,
              wrapper |-> "0xB0B02c75Fc1D07d351C991EBf8B5F5b48F24F40B"],
             [name |-> "dai-weth", vault |-> DAI,
              wrapper |-> "0x57faa0dec960ed774674a45d61ecfe738eb32052"],
             [name |-> "usdc-weth", vault |-> USDC,
              wrapper |-> "0x698c1d40574cd90f1920f61D347acCE60D3910af"] >>],
       [name |-> "frax",
        treasury |-> "0x8d0C5D009b128315715388844196B85b41D9Ea30",
        wrappers |->
          << [name |-> "usdc", vault |-> USDC,
              wrapper |-> "0xEE5825d5185a1D512706f9068E69146A54B6e076"] >>] >>

AllWrappers ==
    UNION {{affiliates[i].wrappers[j] : j \in DOMAIN affiliates[i].wrappers} :
             i \in DOMAIN affiliates}

Holders(v) == {w.wrapper : w \in {x \in AllWrappers : x.vault = v}}

\* ------------------------------------------------------------- the chain
\* chain.obs[v] maps each block at which vault v paid a protocol fee to what
\* the chain holds at that block: the raw value of the fee transfer, the raw
\* totalSupply, the USD price of a share and the raw balanceOf of every
\* wrapper.  chain.interval is the time between two blocks.
Held == 1000000 * VaultScale

Obs(f, s, p, b) == [fee |-> f * VaultScale, supply |-> s, price |-> p, bal |-> b]

W(i, j) == affiliates[i].wrappers[j].wrapper

\* The situations a fee block is drawn from: one wrapper holding half of the
\* supply (a balance exactly on the first threshold), all holding at a
\* higher price, a small or no holding (below every threshold), and (for
\* the first vault) a supply of zero.
Observations(v) ==
    IF v = DAI
    THEN { Obs(1, 2 * Held, 1, (W(1, 1) :> Held) @@ (W(1, 2) :> 0)),
           Obs(2, 2 * Held, 3, (W(1, 1) :> Held) @@ (W(1, 2) :> Held)),
           Obs(1, 2 * Held, 1, (W(1, 1) :> 0) @@ (W(1, 2) :> Held \div 2)),
           Obs(2, 0, 1, (W(1, 1) :> 0) @@ (W(1, 2) :> 0)) }
    ELSE { Obs(1, 2 * Held, 1, (W(1, 3) :> 0) @@ (W(2, 1) :> Held)),
           Obs(2, 2 * Held, 3, (W(1, 3) :> Held) @@ (W(2, 1) :> Held)),
           Obs(1, 2 * Held, 1, (W(1, 3) :> Held) @@ (W(2, 1) :> 0)) }

\* Time between two blocks: half a month, or two months.
Intervals == {1, 2 * MonthLen}

VaultHistories(v) == UNION {[B -> Observations(v)] : B \in SUBSET Blocks}

Chains ==
    {[obs |-> (DAI :> d) @@ (USDC :> u), interval |-> t] :
        d \in VaultHistories(DAI), u \in VaultHistories(USDC), t \in Intervals}

\* get_logs_asap + decode_logs: the fee transfers of vault v, by block.
get_logs(c, v) ==
    LET bs == sorted(DOMAIN c.obs[v])
    IN [k \in DOMAIN bs |-> [block_number |-> bs[k], value |-> c.obs[v][bs[k]].fee]]

\* get_block_timestamp(block)
get_block_timestamp(c, b) == (b - 1) * c.interval

\* vault.balanceOf(wrapper, block_identifier=block), vault.totalSupply(...)
balanceOf(c, v, a, b) == c.obs[v][b].bal[a]
totalSupply(c, v, b) == c.obs[v][b].supply

\* magic.get_price(vault, block=block)
get_price(c, v, b) == c.obs[v][b].price

\* PROTOCOL_CUT: the 0.65 of payout_base, in 1/RateScale.
ProtocolCut == 65

\* ------------------------------------------------------- Partner.process
\* wrapper.protocol_fees(): get_protocol_fees(self.vault)
protocol_fees(c, w) == get_protocol_fees(get_logs(c, w.vault))

\* The data frame `wrap` of one wrapper: one row per item of its fee dict,
\* every column built from the same tuple `blocks`, position by position.
WrapperFrame(c, w) ==
    LET fd == protocol_fees(c, w)
        row(k) ==
            LET blk == fd[k].key
                balance == balanceOf(c, w.vault, w.wrapper, blk) \div VaultScale
                total_supply == totalSupply(c, w.vault, blk) \div VaultScale
                vault_price == get_price(c, w.vault, blk)
                share == Div(balance, total_supply, RateScale)
            IN [block |-> blk,
                timestamp |-> get_block_timestamp(c, blk),
                protocol_fee |-> fd[k].value,
                balance |-> balance,
                total_supply |-> total_supply,
                vault_price |-> vault_price,
                balance_usd |-> Num(balance * vault_price),
                share |-> share,
                payout_base |-> Mul(share, fd[k].value * ProtocolCut),
                wrapper |-> w.wrapper,
                vault |-> w.vault]
    IN [k \in DOMAIN fd |-> row(k)]

\* zip(*protocol_fees.items()) of an empty dict yields nothing to unpack
\* into `blocks, protocol_fees`: ValueError.
Raises(c, p) ==
    \E j \in DOMAIN p.wrappers : protocol_fees(c, p.wrappers[j]) = <<>>

\* pd.concat(wrappers): the frames of the wrappers one after the other.
RECURSIVE ConcatFrames(_, _, _)
ConcatFrames(c, ws, j) ==
    IF j > Len(ws) THEN <<>>
    ELSE WrapperFrame(c, ws[j]) \o ConcatFrames(c, ws, j + 1)

\* The index and the columns of a pivot table of `rows`.
PivotIndex(rows, key) == sorted({rows[k][key] : k \in DOMAIN rows})
PivotColumns(rows) ==
    SelectSeq(VaultColumns, LAMBDA v : \E k \in DOMAIN rows : rows[k].vault = v)

\* The wrong variant of PivotCell that aggregates with 'last' instead of 'sum'.
PivotCellLast(rows, value, key, x, v) ==
    LET hits == {k \in DOMAIN rows : rows[k][key] = x /\ rows[k].vault = v}
    IN IF hits = {} THEN NaN
       ELSE Num(SkipNa(rows[CHOOSE k \in hits : \A n \in hits : n <= k][value]))

\* One cell of pd.pivot_table(rows, value, key, 'vault', 'sum'): the sum,
\* NaN skipped, of the rows of that key and vault; NaN where there is none.
PivotCell(rows, value, key, x, v) ==
    LET hit(k) == rows[k][key] = x /\ rows[k].vault = v
    IN IF \E k \in DOMAIN rows : hit(k)
       THEN Num(SumSeq([k \in DOMAIN rows |->
                          IF hit(k) THEN SkipNa(rows[k][value]) ELSE 0]))
       ELSE NaN

\* .bfill(): the wrong variant of ffill that takes the next observation.
RECURSIVE bfill(_)
bfill(col) ==
    IF col = <<>> THEN <<>>
    ELSE LET rest == bfill(Tail(col))
         IN IF Head(col).nan /\ rest # <<>> THEN <<Head(rest)>> \o rest
            ELSE <<Head(col)>> \o rest

\* .ffill() on one column: a left-to-right scan that carries the last value
\* that is not NaN.
RECURSIVE ffill_scan(_, _)
ffill_scan(col, last) ==
    IF col = <<>> THEN <<>>
    ELSE LET cur == IF Head(col).nan THEN last ELSE Head(col)
         IN <<cur>> \o ffill_scan(Tail(col), cur)

ffill(col) == ffill_scan(col, NaN)

\* pd.pivot_table(partner, 'balance_usd', 'block', 'vault', 'sum')
\*   .ffill().sum(axis=1), as a function of the observed blocks.
TotalBalances(rows) ==
    LET index == PivotIndex(rows, "block")
        cols == PivotColumns(rows)
        column(v) == ffill([i \in DOMAIN index |->
                        PivotCell(rows, "balance_usd", "block", index[i], v)])
        filled == [j \in DOMAIN cols |-> column(cols[j])]
    IN [b \in {index[i] : i \in DOMAIN index} |->
          LET i == CHOOSE n \in DOMAIN index : index[n] = b
          IN SumSeq([j \in DOMAIN cols |-> SkipNa(filled[j][i])])]

\* total_balances.apply(get_tier)
Tiers(tb) == [b \in DOMAIN tb |-> get_tier(tb[b])]

\* The wrong variant of JoinTiers: each row tiered by the balance of its own
\* wrapper.
JoinTiersOwnBalance(rows, ts) ==
    [k \in DOMAIN rows |->
        LET t == get_tier(SkipNa(rows[k].balance_usd))
        IN [tier |-> t, payout |-> Mul(rows[k].payout_base, t)] @@ rows[k]]

\* partner.join(tiers); partner['payout'] = partner.payout_base * partner.tier
JoinTiers(rows, ts) ==
    [k \in DOMAIN rows |->
        LET t == ts[rows[k].block]
        IN [tier |-> t, payout |-> Mul(rows[k].payout_base, t)] @@ rows[k]]

\* ------------------------------------------------ Partner.export_payouts
\* The calendar month of a timestamp and the month-end label of a month.
MonthOf(t) == t \div MonthLen
MonthEnd(m) == (m + 1) * MonthLen - 1

\* pd.pivot_table(partner, 'payout', 'timestamp', 'vault', 'sum')
\*   .resample('1M').sum(): one bin per calendar month from the month of the
\* first timestamp to the month of the last, every bin summed with NaN
\* skipped (an empty bin sums to 0);
\* .stack().reset_index(): one row per bin and column, none of them NaN.
Resample(rows) ==
    LET index == PivotIndex(rows, "timestamp")
        cols == PivotColumns(rows)
        first == MonthOf(index[1])
        last == MonthOf(index[Len(index)])
        bin(m, v) ==
            SumSeq([i \in DOMAIN index |->
                      IF MonthOf(index[i]) = m
                      THEN SkipNa(PivotCell(rows, "payout", "timestamp",
                                            index[i], v))
                      ELSE 0])
    IN [k \in 1 .. (last - first + 1) * Len(cols) |->
          LET m == first + (k - 1) \div Len(cols)
              v == cols[((k - 1) % Len(cols)) + 1]
          IN [timestamp |-> MonthEnd(m), token |-> v, amount |-> Num(bin(m, v))]]

\* The wrong variant of export_payouts that leaves out the bins that sum to 0.
export_payouts_nonzero(p, rows) ==
    LET bins == SelectSeq(Resample(rows), LAMBDA r : r.amount.v # 0)
    IN [k \in DOMAIN bins |->
          [timestamp |-> bins[k].timestamp, partner |-> p.name,
           token |-> bins[k].token, treasury |-> p.treasury,
           amount |-> bins[k].amount]]

\* Partner.export_payouts(partner): the bins with the partner's name and
\* treasury attached, columns timestamp, partner, token, treasury, amount.
export_payouts(p, rows) ==
    LET bins == Resample(rows)
    IN [k \in DOMAIN bins |->
          [timestamp |-> bins[k].timestamp, partner |-> p.name,
           token |-> bins[k].token, treasury |-> p.treasury,
           amount |-> bins[k].amount]]

\* Partner.process() of a partner none of whose wrappers has an empty fee
\* dict: the ledger `partner` and the locals it is built from.
PartnerLedger(c, p) ==
    LET partner == ConcatFrames(c, p.wrappers, 1)
        tb == TotalBalances(partner)
        ts == Tiers(tb)
    IN [total_balances |-> tb, tiers |-> ts, partner |-> JoinTiers(partner, ts)]

\* (result.payout * result.vault_price).sum()
UsdToPay(rows) ==
    Num(SumSeq([k \in DOMAIN rows |->
                  SkipNa(Mul(rows[k].payout, rows[k].vault_price))]))

\* pd.concat(payouts).sort_values('timestamp'): the rows by ascending
\* timestamp.  sort_values sorts with quicksort, which fixes no order among
\* the rows of one timestamp: the model keeps them as one set per timestamp
\* (no two export rows are equal: they differ in partner or in token).
RECURSIVE ConcatTables(_)
ConcatTables(ts) == IF ts = <<>> THEN <<>> ELSE Head(ts) \o ConcatTables(Tail(ts))

SortByTimestamp(rows) ==
    LET index == PivotIndex(rows, "timestamp")
    IN [i \in DOMAIN index |->
          {rows[k] : k \in {n \in DOMAIN rows : rows[n].timestamp = index[i]}}]

\* --------------------------------------------------- process_affiliates
InitRun ==
    /\ chain \in Chains
    /\ pc = [at |-> "loop", i |-> 1]
    /\ result = <<>>
    /\ total_balances = <<>>
    /\ tiers = <<>>
    /\ payout = <<>>
    /\ usd = Num(0)
    /\ payouts = <<>>
    /\ total = Num(0)
    /\ ledger = NotYet

\* One pass of the loop over the partners whose partner.process() returns.
Process ==
    /\ pc.at = "loop"
    /\ pc.i <= Len(affiliates)
    /\ ~Raises(chain, affiliates[pc.i])
    /\ \E l \in {PartnerLedger(chain, affiliates[pc.i])} :
       \E out \in {export_payouts(affiliates[pc.i], l.partner)} :
       \E u \in {UsdToPay(l.partner)} :
          /\ result' = l.partner
          /\ total_balances' = l.total_balances
          /\ tiers' = l.tiers
          /\ payout' = out
          /\ usd' = u
          /\ payouts' = Append(payouts, out)
          /\ total' = Add(total, u)
    /\ pc' = [at |-> "loop", i |-> pc.i + 1]
    /\ UNCHANGED <<chain, ledger>>

\* partner.process() raises; process_affiliates catches nothing, so the
\* exception ends the run.
ProcessRaises ==
    /\ pc.at = "loop"
    /\ pc.i <= Len(affiliates)
    /\ Raises(chain, affiliates[pc.i])
    /\ pc' = [at |-> "raised", i |-> pc.i]
    /\ UNCHANGED <<chain, result, total_balances, tiers, payout, usd, payouts,
                   total, ledger>>

\* After the loop: the consolidated payouts.csv.
Finish ==
    /\ pc.at = "loop"
    /\ pc.i = Len(affiliates) + 1
    /\ ledger' = Some(SortByTimestamp(ConcatTables(payouts)))
    /\ pc' = [at |-> "done", i |-> pc.i]
    /\ UNCHANGED <<chain, result, total_balances, tiers, payout, usd, payouts,
                   total>>

\* ------------------------------------------- Parallel(50, 'threading')
\* One call Parallel(50, 'threading')(delayed(f)(block) for block in blocks)
\* of get_timestamps or Wrapper.vault_prices, and the two columns of the
\* data frame built from `blocks` and from what the call returns.
\*   pool.blocks   the tuple `blocks`
\*   pool.f        what the collaborator f answers for each block
\*   pool.next     the next task to hand out, in the order of the generator
\*   pool.running  the task each worker thread runs, 0 when idle
\*   pool.slots    the result slot of each task
\*   pool.order    the tasks in the order they finished (history only)
\*   pool.out      the list the call returns
\*   pool.frame    the rows of the frame: block and the value beside it
Workers == 1 .. MaxWorkers
TaskBlocks == 1 .. MaxTasks
Answers == [TaskBlocks -> {1, 3}]

InitPool ==
    pool \in
      {[blocks |-> sorted(B), f |-> f, next |-> 1,
        running |-> [w \in Workers |-> 0],
        slots |-> [k \in 1 .. Cardinality(B) |-> NotYet], order |-> <<>>,
        out |-> NotYet, frame |-> NotYet] :
          B \in SUBSET TaskBlocks, f \in Answers}

\* The wrong variant of StoreResult: results kept in the order the workers finish.
StoreResultAsCompleted(slots, k, v) ==
    LET free == CHOOSE i \in DOMAIN slots :
                   slots[i] = NotYet /\ \A j \in 1 .. i - 1 : slots[j] # NotYet
    IN [slots EXCEPT ![free] = Some(v)]

\* A finished task's result goes to the slot of that task.
StoreResult(slots, k, v) == [slots EXCEPT ![k] = Some(v)]

\* An idle worker takes the next task of the generator.
Dispatch(w) ==
    /\ pool.running[w] = 0
    /\ pool.next <= Len(pool.blocks)
    /\ pool' = [pool EXCEPT !.running[w] = pool.next, !.next = pool.next + 1]

\* A worker finishes its task: f(block) is computed and stored.
Complete(w) ==
    /\ pool.running[w] # 0
    /\ LET k == pool.running[w]
       IN pool' = [pool EXCEPT
                     !.slots = StoreResult(pool.slots, k, pool.f[pool.blocks[k]]),
                     !.order = Append(pool.order, k),
                     !.running[w] = 0]

\* All tasks are done: the call returns the slots in task order.
Retrieve ==
    /\ pool.out = NotYet
    /\ pool.next > Len(pool.blocks)
    /\ \A w \in Workers : pool.running[w] = 0
    /\ pool' = [pool EXCEPT !.out = Some([k \in DOMAIN pool.slots |-> pool.slots[k][1]])]

\* pd.DataFrame({'block': blocks, ..., column: returned list}): the columns
\* are put side by side by position.
BuildFrame ==
    /\ pool.out # NotYet
    /\ pool.frame = NotYet
    /\ pool' = [pool EXCEPT !.frame =
                  Some([k \in DOMAIN pool.blocks |->
                          [block |-> pool.blocks[k], value |-> pool.out[1][k]]])]

\* ------------------------------------------------------- specifications
TierIdle == amount = 0 /\ rate = NotYet
FeesIdle == logs = <<>> /\ fees = NotYet
PoolIdle == pool = NotYet
RunIdle ==
    /\ chain = NotYet /\ pc = [at |-> "idle", i |-> 0] /\ result = <<>>
    /\ total_balances = <<>> /\ tiers = <<>> /\ payout = <<>> /\ usd = Num(0)
    /\ payouts = <<>> /\ total = Num(0) /\ ledger = NotYet

tierVars == <<amount, rate>>
feesVars == <<logs, fees>>
runVars == <<chain, pc, result, total_balances, tiers, payout, usd, payouts,
             total, ledger>>

Init == InitRun /\ TierIdle /\ FeesIdle /\ PoolIdle

Next ==
    \/ Process /\ UNCHANGED <<tierVars, feesVars, pool>>
    \/ ProcessRaises /\ UNCHANGED <<tierVars, feesVars, pool>>
    \/ Finish /\ UNCHANGED <<tierVars, feesVars, pool>>

Spec == Init /\ [][Next]_vars

InitTierHarness == InitTier /\ FeesIdle /\ PoolIdle /\ RunIdle
NextTier == ApplyGetTier /\ UNCHANGED <<feesVars, pool, runVars>>
SpecTier == InitTierHarness /\ [][NextTier]_vars

InitFeesHarness == InitFees /\ TierIdle /\ PoolIdle /\ RunIdle
NextFees == GetProtocolFees /\ UNCHANGED <<tierVars, pool, runVars>>
SpecFees == InitFeesHarness /\ [][NextFees]_vars

InitPoolHarness == InitPool /\ TierIdle /\ FeesIdle /\ RunIdle
NextPool ==
    \/ \E w \in Workers : Dispatch(w) /\ UNCHANGED <<tierVars, feesVars, runVars>>
    \/ \E w \in Workers : Complete(w) /\ UNCHANGED <<tierVars, feesVars, runVars>>
    \/ Retrieve /\ UNCHANGED <<tierVars, feesVars, runVars>>
    \/ BuildFrame /\ UNCHANGED <<tierVars, feesVars, runVars>>
SpecPool == InitPoolHarness /\ [][NextPool]_vars

\* ================================================================ claims
SetMax(S) == CHOOSE x \in S : \A y \in S : y <= x
SetMin(S) == CHOOSE x \in S : \A y \in S : x <= y

\* The rate of the greatest threshold that is <= x.
RateOfGreatestThreshold(x) == TIERS[SetMax({t \in Thresholds : t <= x})]

\* C1: for every amount >= 0, get_tier returns the rate of the greatest
\* threshold <= amount; an amount on a threshold gets that threshold's rate,
\* one unit below it the previous rate (1_000_000 gives 0.10, 999_999
\* gives 0, anything from 1_000_000_000 on gives 0.5).
C1_GetTierClosedLeft ==
    rate # NotYet =>
        /\ rate[1] = RateOfGreatestThreshold(amount)
        /\ amount = 1000000 => rate[1] = 10
        /\ amount = 999999 => rate[1] = 0
        /\ amount >= 1000000000 => rate[1] = 50
        /\ \A t \in Thresholds :
             /\ amount = t => rate[1] = TIERS[t]
             /\ (amount = t - 1 /\ t > 0) =>
                   rate[1] = TIERS[SetMax({u \in Thresholds : u < t})]

C1_Witness ==
    /\ rate # NotYet
    /\ amount = 1000000
    /\ rate[1] = 10

Processed == pc.at \in {"loop", "raised", "done"} /\ pc.i > 1
LastPartner == affiliates[pc.i - 1]

WrappersOf(p) == {p.wrappers[j] : j \in DOMAIN p.wrappers}
VaultsOf(p) == {w.vault : w \in WrappersOf(p)}
FeeBlocks(v) == DOMAIN chain.obs[v]
ObservedBlocks(p) == UNION {FeeBlocks(v) : v \in VaultsOf(p)}

RECURSIVE SetSum(_, _)
SetSum(S, f) ==
    IF S = {} THEN 0
    ELSE LET x == CHOOSE y \in S : TRUE IN f[x] + SetSum(S \ {x}, f)

\* The USD balance of wrapper w at a fee block of its vault, and of all the
\* wrappers of partner p on vault v.
WrapperUsd(w, b) ==
    (chain.obs[w.vault][b].bal[w.wrapper] \div VaultScale) * chain.obs[w.vault][b].price
VaultUsd(p, v, b) ==
    LET ws == {w \in WrappersOf(p) : w.vault = v}
    IN SetSum(ws, [w \in ws |-> WrapperUsd(w, b)])

\* What vault v adds to the total at block b: its balance at its latest fee
\* block <= b, nothing when it has none.
CarriedUsd(p, v, b) ==
    LET prior == {x \in FeeBlocks(v) : x <= b}
    IN IF prior = {} THEN 0 ELSE VaultUsd(p, v, SetMax(prior))
CombinedUsd(p, b) ==
    SetSum(VaultsOf(p), [v \in VaultsOf(p) |-> CarriedUsd(p, v, b)])

\* C2: the cumulative total balance at every observed block b is the sum over
\* the partner's vaults of the vault's balance_usd (over the partner's
\* wrappers of that vault) at the greatest observed block <= b at which the
\* vault has an observation; a vault with none at or before b adds 0 and no
\* observation later than b is used.
C2_ForwardFilledTotal ==
    Processed =>
        /\ DOMAIN total_balances = ObservedBlocks(LastPartner)
        /\ \A b \in DOMAIN total_balances :
              total_balances[b] = CombinedUsd(LastPartner, b)

\* One vault's balance is carried to a block at which only the other vault
\* paid a fee, and a vault's later balance is left out of an earlier block.
C2_Witness ==
    /\ Processed
    /\ \E b \in DOMAIN total_balances : \E v \in VaultsOf(LastPartner) :
          b \notin FeeBlocks(v) /\ CarriedUsd(LastPartner, v, b) > 0
    /\ \E b \in DOMAIN total_balances : \E v \in VaultsOf(LastPartner) :
          /\ \A x \in FeeBlocks(v) : x > b
          /\ \E x \in FeeBlocks(v) : VaultUsd(LastPartner, v, x) > 0
          /\ total_balances[b] > 0

\* C3: every ledger row at block b has tier = get_tier(combined cumulative
\* balance of all the partner's wrappers and vaults at b), so rows sharing a
\* block share the tier, whichever wrapper they belong to; every row has
\* payout = payout_base * tier; the ledger has one row per wrapper fee event
\* (rows of different wrappers at one block are not merged).
C3_TierOfCombinedBalance ==
    Processed =>
        /\ \A k \in DOMAIN result :
              /\ result[k].tier
                    = RateOfGreatestThreshold(CombinedUsd(LastPartner, result[k].block))
              /\ result[k].payout.nan = result[k].payout_base.nan
              /\ result[k].payout.v = result[k].payout_base.v * result[k].tier
        /\ \A k \in DOMAIN result : \A n \in DOMAIN result :
              result[k].block = result[n].block => result[k].tier = result[n].tier
        /\ \A w \in WrappersOf(LastPartner) : \A b \in FeeBlocks(w.vault) :
              Cardinality({k \in DOMAIN result :
                             result[k].wrapper = w.wrapper /\ result[k].block = b}) = 1
        /\ Len(result)
              = SetSum(WrappersOf(LastPartner),
                       [w \in WrappersOf(LastPartner) |-> Cardinality(FeeBlocks(w.vault))])

\* Two wrappers have a row at one block, and one of them is tiered above
\* what its own balance would give.
C3_Witness ==
    /\ Processed
    /\ \E k \in DOMAIN result : \E n \in DOMAIN result :
          /\ result[k].block = result[n].block
          /\ result[k].wrapper # result[n].wrapper
          /\ result[k].vault # result[n].vault
          /\ result[k].tier > RateOfGreatestThreshold(result[k].balance_usd.v)
          /\ result[k].payout.v > 0

\* --------------------------------------- claims on Partner.export_payouts
\* The sum, NaN skipped, of the payouts of the ledger rows of one vault in
\* one calendar month.
BucketPayout(m, v) ==
    SumSeq([k \in DOMAIN result |->
              IF result[k].vault = v /\ MonthOf(result[k].timestamp) = m
              THEN SkipNa(result[k].payout) ELSE 0])

LedgerMonths == {MonthOf(result[k].timestamp) : k \in DOMAIN result}
ExportKeys == {<<payout[k].timestamp, payout[k].token>> : k \in DOMAIN payout}

\* C4: the amounts of the export rows sum to the payouts of the ledger rows
\* (a NaN payout counts as 0, as in every pandas sum): monthly bucketing
\* neither loses nor duplicates a payout.
C4_ExportConservesPayouts ==
    Processed =>
        SumSeq([k \in DOMAIN payout |-> SkipNa(payout[k].amount)])
            = SumSeq([k \in DOMAIN result |-> SkipNa(result[k].payout)])

\* Two paying fee events of one vault fall in one month, at different blocks
\* and at one block.
C4_Witness ==
    /\ Processed
    /\ \E k \in DOMAIN result : \E n \in DOMAIN result :
          /\ result[k].vault = result[n].vault
          /\ result[k].timestamp # result[n].timestamp
          /\ MonthOf(result[k].timestamp) = MonthOf(result[n].timestamp)
          /\ result[k].payout.v > 0 /\ result[n].payout.v > 0
    /\ \E k \in DOMAIN result : \E n \in DOMAIN result :
          /\ k # n
          /\ result[k].vault = result[n].vault
          /\ result[k].timestamp = result[n].timestamp
          /\ result[k].payout.v > 0 /\ result[n].payout.v > 0

\* C5 as stated: one row per (month-end, vault) pair whose aggregated payout
\* is nonzero: no two rows share (timestamp, token) and no row has amount 0.
C5_OnlyNonzeroRows ==
    Processed =>
        /\ Cardinality(ExportKeys) = Len(payout)
        /\ \A k \in DOMAIN payout : payout[k].amount.v # 0
        /\ ExportKeys
              = {<<MonthEnd(q[1]), q[2]>> :
                    q \in {x \in LedgerMonths \X VaultsOf(LastPartner) :
                              BucketPayout(x[1], x[2]) # 0}}

\* C5 as amended: the export has exactly one row per calendar month from the
\* month of the partner's first fee event to the month of its last and per
\* vault of the partner, whatever its amount: no two rows share
\* (timestamp, token), and the rows of the months without a fee event and of
\* the buckets whose payouts sum to 0 are there with amount 0.
C5_OneRowPerMonthAndVault ==
    Processed =>
        LET months == SetMin(LedgerMonths) .. SetMax(LedgerMonths)
        IN /\ Cardinality(ExportKeys) = Len(payout)
           /\ ExportKeys = {<<MonthEnd(m), v>> : m \in months, v \in VaultsOf(LastPartner)}
           /\ \A k \in DOMAIN payout :
                 /\ payout[k].partner = LastPartner.name
                 /\ payout[k].treasury = LastPartner.treasury
                 /\ \A m \in months :
                       payout[k].timestamp = MonthEnd(m) =>
                           payout[k].amount = Num(BucketPayout(m, payout[k].token))

\* A row of amount 0 for a month without fee events, one for a month whose
\* events were all tiered at rate 0, and a row that pays.
C5_Witness ==
    /\ Processed
    /\ \E k \in DOMAIN payout :
          /\ payout[k].amount.v = 0
          /\ \A n \in DOMAIN result : MonthEnd(MonthOf(result[n].timestamp)) # payout[k].timestamp
    /\ \E k \in DOMAIN payout :
          /\ payout[k].amount.v = 0
          /\ \E n \in DOMAIN result :
                /\ MonthEnd(MonthOf(result[n].timestamp)) = payout[k].timestamp
                /\ result[n].vault = payout[k].token
                /\ result[n].payout_base.v > 0
          /\ \A n \in DOMAIN result :
                MonthEnd(MonthOf(result[n].timestamp)) = payout[k].timestamp
                    => result[n].tier = 0
    /\ \E k \in DOMAIN payout : payout[k].amount.v > 0

\* ----------------------------------------------------- claims on NaN rows
ZeroSupplyRows == {k \in DOMAIN result : result[k].total_supply = 0}
BucketOf(k) ==
    {j \in DOMAIN payout :
        /\ payout[j].timestamp = MonthEnd(MonthOf(result[k].timestamp))
        /\ payout[j].token = result[k].vault}

\* C8 as stated: a row whose total_supply is 0 has a NaN share, and the NaN
\* reaches its payout_base, its payout, the export amount of its (month,
\* vault) bucket and the partner's USD subtotal.
C8_NaNReachesExportAndSubtotal ==
    Processed =>
        \A k \in ZeroSupplyRows :
            /\ result[k].share.nan
            /\ result[k].payout_base.nan
            /\ result[k].payout.nan
            /\ \A j \in BucketOf(k) : payout[j].amount.nan
            /\ usd.nan

\* C8 as amended: a row whose total_supply is 0 raises nothing and has a NaN
\* share, payout_base and payout in the ledger; the sums downstream skip the
\* NaN: the export amount of its bucket is the sum of the other payouts of
\* the bucket and the USD subtotal is the sum over the other rows, as if
\* the row paid 0.
C8_NaNStaysInLedgerRow ==
    Processed =>
        /\ \A k \in ZeroSupplyRows :
              /\ result[k].share = NaN
              /\ result[k].payout_base = NaN
              /\ result[k].payout = NaN
              /\ Cardinality(BucketOf(k)) = 1
              /\ \A j \in BucketOf(k) :
                    payout[j].amount
                        = Num(SumSeq([n \in DOMAIN result |->
                                        IF /\ n \notin ZeroSupplyRows
                                           /\ result[n].vault = result[k].vault
                                           /\ MonthOf(result[n].timestamp)
                                                = MonthOf(result[k].timestamp)
                                        THEN result[n].payout.v ELSE 0]))
        /\ ZeroSupplyRows # {} =>
              usd = Num(SumSeq([n \in DOMAIN result |->
                                  IF n \in ZeroSupplyRows THEN 0
                                  ELSE result[n].payout.v * result[n].vault_price]))

\* A zero-supply row shares its bucket with a row that pays.
C8_Witness ==
    /\ Processed
    /\ \E k \in ZeroSupplyRows : \E j \in BucketOf(k) :
          /\ result[k].protocol_fee > 0
          /\ payout[j].amount.v > 0
    /\ usd.v > 0

\* ------------------------------------------------- claims on failures
EmptyWrappers(p) == {w \in WrappersOf(p) : FeeBlocks(w.vault) = {}}
WithoutEmptyWrappers(p) ==
    [p EXCEPT !.wrappers = SelectSeq(p.wrappers, LAMBDA w : FeeBlocks(w.vault) # {})]

\* process() has been called for partner i and has returned or raised.
Called(i) == pc.at \in {"loop", "raised", "done"} /\ (pc.i > i \/ (pc.i = i /\ pc.at = "raised"))

\* C6: when one wrapper of a partner has no fee events, Partner.process does
\* not raise: the wrapper adds no ledger rows, and the ledger, tiers and
\* payouts of the other wrappers are what they are without it.
C6_EmptyWrapperIsSkipped ==
    \A i \in DOMAIN affiliates :
        LET p == affiliates[i]
        IN (Called(i) /\ EmptyWrappers(p) # {} /\ EmptyWrappers(p) # WrappersOf(p)) =>
              /\ ~(pc.at = "raised" /\ pc.i = i)
              /\ pc.i = i + 1 =>
                    /\ result = PartnerLedger(chain, WithoutEmptyWrappers(p)).partner
                    /\ payout = export_payouts(p, result)

\* C7: a partner whose pipeline fails does not stop the run: the partners
\* after it are processed, the subtotals of the others and the grand total
\* are what they are without it, and the consolidated ledger is produced.
C7_FailingPartnerIsIsolated ==
    /\ pc.at # "raised"
    /\ pc.at = "done" =>
          /\ ledger # NotYet
          /\ Len(payouts) = Len(affiliates)
          /\ total.v = SetSum({i \in DOMAIN affiliates : ~Raises(chain, affiliates[i])},
                              [i \in DOMAIN affiliates |->
                                 IF Raises(chain, affiliates[i]) THEN 0
                                 ELSE UsdToPay(PartnerLedger(chain, affiliates[i]).partner).v])

============================================================================
